---- MODULE Spec2Model ----
(***************************************************************************)
(* The tracker announce subsystem of synapse: the dispatcher               *)
(* (src/tracker/mod.rs) and the HTTP announce handler with its             *)
(* per-announce state machine (src/tracker/http/mod.rs).                   *)
(*                                                                         *)
(* One OS thread owns everything modelled here, so every dispatcher        *)
(* handler (handle_request, handle_dns_res, handle_timer, handle_socket)   *)
(* is one atomic action.  The environment is the client (which queues      *)
(* requests), the DNS resolver (which answers queries), the sockets        *)
(* (whose readiness and I/O outcomes are chosen with \E) and the clock.    *)
(***************************************************************************)
EXTENDS Integers, Sequences, FiniteSets, TLC

\* ------------------------------------------------------------------------
\* Program constants
\* ------------------------------------------------------------------------

\* const TIMEOUT_MS: u64 = 2500;
TIMEOUT_MS == 2500

\* reg.set_interval(150)
TICK_MS == 150

\* url.port().unwrap_or(80)
DEFAULT_PORT == 80

\* TrackerResponse::empty(): interval: 900
DEFAULT_INTERVAL == 900

\* ------------------------------------------------------------------------
\* Bounds of the model
\* ------------------------------------------------------------------------

\* No Instant the model holds grows older than this (milliseconds).
MaxElapsed == 3000

\* Requests the inbound queue holds at once.
MaxQueue == 1

\* Queries the resolver owes at once for one id.
MaxQueries == 1

\* The responses counted per announce; a count of MaxOut stands for more.
MaxOut == 2

\* Connection ids.
Ids == {1, 2}

\* The request buffer's length, in units a single write may accept.
ReqLen == 2

\* Reads that return data before the model makes the peer close.
ReadCap == 1

\* The whole compact peers a reply's peers string holds, at most.
MaxPeers == 2

\* Between two firings of the timer the clock is sampled once, Phase ms
\* after the firing: an Instant taken there is exactly TIMEOUT_MS old at a
\* later firing, and TIMEOUT_MS + TICK_MS old at the one after.
Phase == TICK_MS - (TIMEOUT_MS % TICK_MS)

\* ------------------------------------------------------------------------
\* Values
\* ------------------------------------------------------------------------

None == [some |-> FALSE]

Some(x) == [some |-> TRUE, val |-> x]

Ok(x) == [ok |-> TRUE, panic |-> FALSE, val |-> x]

Err(k) == [ok |-> FALSE, panic |-> FALSE, err |-> k]

\* A panic unwinds the dispatcher's thread; no value is produced.
Panic == [ok |-> FALSE, panic |-> TRUE, err |-> "panic"]

\* Announce.event, as far as the program reads it: Stopped or another.
AnnounceEvents == {"Started", "Stopped"}

\* A stopping() that is never true.
NeverStopping(req) == FALSE

\* Announce::stopping
stopping(req) == req.event = "Stopped"

\* ------------------------------------------------------------------------
\* The tracker's reply: bencode values and TrackerResponse::from_bencode
\* ------------------------------------------------------------------------

BStr(bytes) == [t |-> "str", s |-> bytes]

BInt(n) == [t |-> "int", n |-> n]

BDict(f) == [t |-> "dict", d |-> f]

Min(a, b) == IF a < b THEN a ELSE b

\* The slice's chunks(n): consecutive pieces of n elements, the last one
\* shorter when the length is no multiple of n.
chunks(s, n) ==
    [i \in 1..((Len(s) + n - 1) \div n) |->
        SubSeq(s, (i - 1) * n + 1, Min(i * n, Len(s)))]

\* A read of the port with its low byte first.
read_u16_le(p) ==
    IF Len(p) < 2 THEN Err("UnexpectedEof") ELSE Ok(p[2] * 256 + p[1])

\* (&p[4..]).read_u16::<BigEndian>(): an error on fewer than two bytes.
read_u16_be(p) ==
    IF Len(p) < 2 THEN Err("UnexpectedEof") ELSE Ok(p[1] * 256 + p[2])

\* One compact peer: p[0..3] index the chunk (out of bounds on a chunk
\* shorter than 4), and the port's unwrap() panics on a chunk shorter than 6.
peer_of_chunk(p) ==
    IF Len(p) < 4 THEN Panic
    ELSE LET port == read_u16_be(SubSeq(p, 5, Len(p)))
         IN  IF ~port.ok THEN Panic
             ELSE Ok([ip |-> SubSeq(p, 1, 4), port |-> port.val])

\* util::bytes_to_addr: the same indexing and the same unwrap().
bytes_to_addr(p) ==
    IF Len(p) < 4 THEN Panic
    ELSE LET port == read_u16_be(SubSeq(p, 5, Len(p)))
         IN  IF ~port.ok THEN Panic
             ELSE Ok([ip |-> SubSeq(p, 1, 4), port |-> port.val])

\* write_u16::<BigEndian>(port) into two bytes: the high byte first.
write_u16_be(n) == <<(n \div 256) % 256, n % 256>>

\* util::addr_to_bytes, on the V4 addresses from_bencode makes: the four
\* octets, then the port.
addr_to_bytes(addr) ==
    <<addr.ip[1], addr.ip[2], addr.ip[3], addr.ip[4]>> \o write_u16_be(addr.port)

\* String::from_utf8, on byte strings whose bytes are ASCII or 0xF8 and
\* more (the ones the model holds): ASCII is valid UTF-8, and no sequence
\* holding a byte of 0xF8 or more is.
is_utf8(bytes) == \A i \in 1..Len(bytes) : bytes[i] < 128

\* `*i as u32`: the low 32 bits of i, held as two 16-bit halves (the
\* integers of TLC end at 2^31 - 1).
as_u32(i) == [hi |-> (i \div 65536) % 65536, lo |-> i % 65536]

\* TrackerResponse::empty
empty ==
    [peers |-> <<>>, interval |-> as_u32(DEFAULT_INTERVAL),
     leechers |-> 0, seeders |-> 0]

HasStr(d, k) == k \in DOMAIN d /\ d[k].t = "str"

HasInt(d, k) == k \in DOMAIN d /\ d[k].t = "int"

\* TrackerResponse::from_bencode
from_bencode(data) ==
    IF data.t # "dict"
    THEN Err("InvalidResponse")
    ELSE LET d == data.d IN
         IF HasStr(d, "failure reason")
         THEN IF is_utf8(d["failure reason"].s)
              THEN Err("TrackerError")
              ELSE Err("InvalidResponse")
         ELSE IF ~HasStr(d, "peers")
         THEN Err("InvalidResponse")
         ELSE LET cs == chunks(d["peers"].s, 6)
                  ps == [i \in DOMAIN cs |-> peer_of_chunk(cs[i])]
              IN  IF \E i \in DOMAIN ps : ps[i].panic
                  THEN Panic
                  ELSE IF ~HasInt(d, "interval")
                  THEN Err("InvalidResponse")
                  ELSE Ok([empty EXCEPT
                              !.peers = [i \in DOMAIN ps |-> ps[i].val],
                              !.interval = as_u32(d["interval"].n)])

\* bencode::decode_buf(&data).chain_err(|| InvalidResponse(..)): the decoder
\* is an external library; a payload either is a bencode value or is not.
decode_buf(data) ==
    IF data.bencode THEN Ok(data.val) ELSE Err("InvalidResponse")

\* Payloads a tracker may have sent by the time it closes the connection.
GoodReply ==
    [bencode |-> TRUE,
     val |-> BDict([k \in {"interval", "peers"} |->
                IF k = "interval" THEN BInt(1800)
                ELSE BStr(<<10, 0, 0, 2, 26, 225>>)])]

FailureReply ==
    [bencode |-> TRUE,
     val |-> BDict([k \in {"failure reason"} |-> BStr(<<98, 97, 100>>)])]

NoIntervalReply ==
    [bencode |-> TRUE, val |-> BDict([k \in {"peers"} |-> BStr(<<>>)])]

ShortPeersReply ==
    [bencode |-> TRUE,
     val |-> BDict([k \in {"interval", "peers"} |->
                IF k = "interval" THEN BInt(1800)
                ELSE BStr(<<10, 0, 0, 2, 26>>)])]

GarbageReply == [bencode |-> FALSE]

Replies ==
    {GoodReply, FailureReply, NoIntervalReply, ShortPeersReply, GarbageReply}

\* ------------------------------------------------------------------------
\* Writer and Reader (src/tracker/http/writer.rs and reader.rs are not part
\* of the sources at hand; modelled from their contracts)
\* ------------------------------------------------------------------------

\* Writer::new(req): the cursor at the start of the request buffer.
WriterNew(req) == [left |-> req]

\* What one call of Writer::writable may meet on the socket: an I/O error,
\* or n units accepted before the socket would block.
Accepts(n) == [failed |-> FALSE, n |-> n]

WriteFails == [failed |-> TRUE, n |-> 0]

WriteOutcomes(writer) == {WriteFails} \cup {Accepts(n) : n \in 0..writer.left}

\* Writer::writable: Err on an I/O error, Some(()) when the buffer is
\* exhausted, None (would block) otherwise.
WriterWritable(writer, w) ==
    IF w.failed THEN Err("IO")
    ELSE IF w.n >= writer.left THEN Ok([done |-> TRUE, writer |-> [left |-> 0]])
    ELSE Ok([done |-> FALSE, writer |-> [left |-> writer.left - w.n]])

\* Reader::new(): nothing received.
ReaderNew == [got |-> 0]

\* What one call of Reader::readable may meet on the socket.
ReadOutcomes == {"err", "more", "eof"}

\* Reader::readable: Err on an I/O error, true at end of stream, false
\* (more to come) otherwise.
ReaderReadable(reader, r) ==
    IF r = "err" THEN Err("IO")
    ELSE IF r = "eof" THEN Ok([done |-> TRUE, reader |-> reader])
    ELSE Ok([done |-> FALSE,
             reader |-> [got |-> Min(reader.got + 1, ReadCap)]])

\* ------------------------------------------------------------------------
\* TrackerState (src/tracker/http/mod.rs)
\* ------------------------------------------------------------------------

ErrorState == [tag |-> "Error"]

ResolvingDNS(sock, req, port) ==
    [tag |-> "ResolvingDNS", sock |-> sock, req |-> req, port |-> port]

Writing(sock, writer) == [tag |-> "Writing", sock |-> sock, writer |-> writer]

Reading(sock, reader) == [tag |-> "Reading", sock |-> sock, reader |-> reader]

Complete(r) == [tag |-> "Complete", resp |-> r]

\* TrackerState::new
TrackerStateNew(sock, req, port) == ResolvingDNS(sock, req, port)

\* http::Event
DNSResolved(r) == [kind |-> "DNSResolved", r |-> r]

Readable == [kind |-> "Readable"]

Writable == [kind |-> "Writable"]

\* The outcome of a transition, with the socket calls it made.
Step(res, io) == [res |-> res, io |-> io]

\* The outcome n of the transition that follows socket calls io.
Then(io, n) == Step(n.res, io \o n.io)

\* TrackerResponse::from_bencode(content)?, into Complete.
Parsed(resp) ==
    IF resp.panic THEN Step(Panic, <<"read">>)
    ELSE IF ~resp.ok THEN Step(Err(resp.err), <<"read">>)
    ELSE Step(Ok(Complete(resp.val)), <<"read">>)

\* bencode::decode_buf(&data).chain_err(..)?, then from_bencode.
Decoded(content) ==
    IF ~content.ok THEN Step(Err(content.err), <<"read">>)
    ELSE Parsed(from_bencode(content.val))

\* (Reading, Readable): lines 80-89.  e.r is what the read meets and e.body
\* what the reader holds at end of stream.
NextReading(s, e) ==
    LET Of(rd) ==
            IF ~rd.ok THEN Step(Err(rd.err), <<"read">>)
            ELSE IF rd.val.done THEN Decoded(decode_buf(e.body))
            ELSE Step(Ok(Reading(s.sock, rd.val.reader)), <<"read">>)
    IN  Of(ReaderReadable(s.reader, e.r))

\* A finished write that goes to Reading and waits for the socket's next
\* notification before it reads.
NextWritingLazy(s, e) ==
    LET Of(wr) ==
            IF ~wr.ok THEN Step(Err(wr.err), <<"write">>)
            ELSE IF wr.val.done
            THEN Step(Ok(Reading(s.sock, ReaderNew)), <<"write">>)
            ELSE Step(Ok(Writing(s.sock, wr.val.writer)), <<"write">>)
    IN  Of(WriterWritable(s.writer, e.w))

\* (Writing, Writable): lines 69-79.  A finished write goes on to
\* Reading.next(Readable).
NextWriting(s, e) ==
    LET Of(wr) ==
            IF ~wr.ok THEN Step(Err(wr.err), <<"write">>)
            ELSE IF wr.val.done
            THEN Then(<<"write">>, NextReading(Reading(s.sock, ReaderNew), e))
            ELSE Step(Ok(Writing(s.sock, wr.val.writer)), <<"write">>)
    IN  Of(WriterWritable(s.writer, e.w))

\* (ResolvingDNS, DNSResolved(r)): lines 64-68.  `r.res?` returns the
\* resolver's error; otherwise connect and go on to Writing.next(Writable).
NextResolving(s, r, e) ==
    IF ~r.res.ok THEN Step(Err("DNS"), <<>>)
    ELSE LET sock == [s.sock EXCEPT !.peer = Some([ip |-> r.res.val, port |-> s.port])]
         IN  Then(<<"connect">>, NextWriting(Writing(sock, WriterNew(s.req)), e))

\* A match without the arms of lines 90-92: an event that is not the one
\* the state waits for is an error.
StrictNext(s, event, e) ==
    IF s.tag = "ResolvingDNS" /\ event.kind = "DNSResolved"
    THEN NextResolving(s, event.r, e)
    ELSE IF s.tag = "Writing" /\ event.kind = "Writable"
    THEN NextWriting(s, e)
    ELSE IF s.tag = "Reading" /\ event.kind = "Readable"
    THEN NextReading(s, e)
    ELSE Step(Err("Msg"), <<>>)

\* TrackerState::next: the match of lines 63-94, arm by arm.
next(s, event, e) ==
    IF s.tag = "ResolvingDNS" /\ event.kind = "DNSResolved"
    THEN NextResolving(s, event.r, e)
    ELSE IF s.tag = "Writing" /\ event.kind = "Writable"
    THEN NextWriting(s, e)
    ELSE IF s.tag = "Reading" /\ event.kind = "Readable"
    THEN NextReading(s, e)
    ELSE IF s.tag \in {"Writing", "Reading", "ResolvingDNS"}
    THEN Step(Ok(s), <<>>)
    ELSE Step(Err("Msg"), <<>>)

\* TrackerState::handle: the state is replaced by Error before the
\* transition and put back only when the transition yields a state other
\* than Complete.  Result<Option<TrackerResponse>> is `ret`.
handle(s, event, e) ==
    LET Of(n) ==
            IF n.res.panic THEN [state |-> ErrorState, ret |-> Panic, io |-> n.io]
            ELSE IF ~n.res.ok
            THEN [state |-> ErrorState, ret |-> Err(n.res.err), io |-> n.io]
            ELSE IF n.res.val.tag = "Complete"
            THEN [state |-> ErrorState, ret |-> Ok(Some(n.res.val.resp)), io |-> n.io]
            ELSE [state |-> n.res.val, ret |-> Ok(None), io |-> n.io]
    IN  Of(next(s, event, e))

\* ------------------------------------------------------------------------
\* Time
\* ------------------------------------------------------------------------

\* An Instant is held as the time elapsed since it, in ms: Instant::now()
\* is 0, and the passage of d ms adds d to every Instant held.
InstantNow == 0

\* Instant::elapsed
elapsed(instant) == instant

\* ------------------------------------------------------------------------
\* Handler (src/tracker/http/mod.rs)
\* ------------------------------------------------------------------------

\* The record of one announce (struct Tracker of http/mod.rs).  `seen` is
\* not part of the program; it keeps, for the properties, the history of
\* the announce: whether the request was stopping, how many responses the
\* Handler has returned for the record (MaxOut stands for more), whether
\* one of them was the resolver's error, and the time since the record was
\* created or last had an event delivered.
Record(torrent, last_updated, state, seen) ==
    [torrent |-> torrent, last_updated |-> last_updated, state |-> state,
     seen |-> seen]

Seen(stop, sent, dns_err, quiet) ==
    [stopping |-> stop, sent |-> sent, dns_err |-> dns_err, quiet |-> quiet]

\* tracker::Response = (usize, Result<TrackerResponse>).  `of` is not part
\* of the program: the history of the announce the response is for, as it
\* was before this response.
Response(trk, res) == [torrent |-> trk.torrent, res |-> res, of |-> trk.seen]

\* The history once an event has been delivered to the record `was` and
\* `ret` returned for it.
Delivered(trk, was, ret) ==
    [trk EXCEPT !.seen =
        [was.seen EXCEPT
            !.quiet = 0,
            !.sent = IF ret.some THEN Min(MaxOut, @ + 1) ELSE @,
            !.dns_err = @ \/ (ret.some /\ ret.val.res = Err("DNS"))]]

\* What a Handler method hands back: the map as it leaves it, its return
\* value, whether it panicked, and (for the properties) what the state
\* machine returned, the socket calls made, and the record before.
Returned(conns, ret, h, pre) ==
    [connections |-> conns, ret |-> ret, panic |-> h.ret.panic,
     sm |-> h.ret, io |-> h.io, pre |-> pre]

\* A Handler method on the record under id, which it left as t.trk,
\* returning ret.
ReturnedFor(conns, id, t, ret) ==
    Returned([conns EXCEPT ![id] = Delivered(t.trk, conns[id], ret)],
             ret, t.h, Some(conns[id]))

NotCalled == [state |-> ErrorState, ret |-> Ok(None), io |-> <<>>]

\* Handler::contains
contains(conns, id) == id \in DOMAIN conns

\* Touch without its first statement: the event is handled and
\* last_updated is left as it was.
TouchStale(trk, event, e) ==
    LET Of(h) == [trk |-> [trk EXCEPT !.state = h.state], h |-> h]
    IN  Of(handle(trk.state, event, e))

\* `trk.last_updated = Instant::now(); trk.state.handle(event)` on the
\* record in place: the part readable, writable and dns_resolved share.
Touch(trk, event, e) ==
    LET Of(h) ==
            [trk |-> [trk EXCEPT !.last_updated = InstantNow, !.state = h.state],
             h |-> h]
    IN  Of(handle(trk.state, event, e))

\* Handler::readable
readable(conns, id, e) ==
    IF id \notin DOMAIN conns
    THEN Returned(conns, None, NotCalled, None)
    ELSE LET Of(t) ==
                 ReturnedFor(conns, id, t,
                     IF t.h.ret.panic THEN None
                     ELSE IF ~t.h.ret.ok
                     THEN Some(Response(t.trk, Err(t.h.ret.err)))
                     ELSE IF t.h.ret.val.some
                     THEN Some(Response(t.trk, Ok(t.h.ret.val.val)))
                     ELSE None)
         IN  Of(Touch(conns[id], Readable, e))

\* Handler::writable
writable(conns, id, e) ==
    IF id \notin DOMAIN conns
    THEN Returned(conns, None, NotCalled, None)
    ELSE LET Of(t) ==
                 ReturnedFor(conns, id, t,
                     IF t.h.ret.panic THEN None
                     ELSE IF ~t.h.ret.ok
                     THEN Some(Response(t.trk, Err(t.h.ret.err)))
                     ELSE None)
         IN  Of(Touch(conns[id], Writable, e))

\* A dns_resolved that answers for an id it has no record of.
DnsResolvedLoud(conns, resp, e) ==
    IF resp.id \notin DOMAIN conns
    THEN Returned(conns,
                  Some([torrent |-> 0, res |-> Err("Msg"),
                        of |-> Seen(FALSE, 0, FALSE, 0)]),
                  NotCalled, None)
    ELSE LET Of(t) ==
                 ReturnedFor(conns, resp.id, t,
                     IF t.h.ret.panic THEN None
                     ELSE IF ~t.h.ret.ok
                     THEN Some(Response(t.trk, Err(t.h.ret.err)))
                     ELSE None)
         IN  Of(Touch(conns[resp.id], DNSResolved(resp), e))

\* Handler::dns_resolved
dns_resolved(conns, resp, e) ==
    IF resp.id \notin DOMAIN conns
    THEN Returned(conns, None, NotCalled, None)
    ELSE LET Of(t) ==
                 ReturnedFor(conns, resp.id, t,
                     IF t.h.ret.panic THEN None
                     ELSE IF ~t.h.ret.ok
                     THEN Some(Response(t.trk, Err(t.h.ret.err)))
                     ELSE None)
         IN  Of(Touch(conns[resp.id], DNSResolved(resp), e))

\* The test with >= for >: a record is timed out at TIMEOUT_MS sharp.
TimedOutAt(trk) == elapsed(trk.last_updated) >= TIMEOUT_MS

\* The test with one more timer interval of grace.
TimedOutLate(trk) == elapsed(trk.last_updated) > TIMEOUT_MS + TICK_MS

\* The test of tick's retain closure: the record has timed out.
TimedOut(trk) == elapsed(trk.last_updated) > TIMEOUT_MS

\* Handler::tick.  HashMap::retain visits the records in an order the
\* program does not choose: `order` lists the ids in the order visited.
tick(conns, order) ==
    LET gone == {id \in DOMAIN conns : TimedOut(conns[id])}
        visited == SelectSeq(order, LAMBDA id : id \in gone)
    IN  [connections |-> [id \in DOMAIN conns \ gone |-> conns[id]],
         resps |-> [i \in DOMAIN visited |->
                       Response(conns[visited[i]], Err("Timeout"))]]

\* url::Url, as far as new_announce and handle_request read it.  The url
\* crate is external: the model lets a parsed http URL lack a host, which
\* the Url type allows.
url_parse(url) ==
    CASE url = "http://tr.example/announce" ->
            Ok([scheme |-> "http", host |-> Some("tr.example"), port |-> None])
      [] url = "http:/announce" ->
            Ok([scheme |-> "http", host |-> None, port |-> None])
      [] url = "udp://tr.example:6969" ->
            Ok([scheme |-> "udp", host |-> Some("tr.example"), port |-> Some(6969)])
      [] url = "wss://tr.example/announce" ->
            Ok([scheme |-> "wss", host |-> Some("tr.example"), port |-> None])
      [] OTHER -> Err("parse")

\* The request buffer new_announce builds (lines 169-214), by its length.
http_req(req, url) == ReqLen

\* new_announce without the test of the URL's host (lines 207-209).
AnnounceAnyUrl(conns, queries, req, url, made) ==
    IF ~made.ok
    THEN [res |-> Err("IO"), connections |-> conns, dns |-> queries]
    ELSE LET id == made.val
             trk == Record(req.id, InstantNow,
                           TrackerStateNew([id |-> id, peer |-> None],
                                           http_req(req, url), DEFAULT_PORT),
                           Seen(stopping(req), 0, FALSE, 0))
         IN  [res |-> Ok(id),
              connections |-> [i \in DOMAIN conns \cup {id} |->
                                  IF i = id THEN trk ELSE conns[i]],
              dns |-> [queries EXCEPT ![id] = @ + 1]]

\* new_announce that files the record under an id other than the socket's.
AnnounceMisfiled(conns, queries, req, url, made) ==
    IF ~url.host.some
    THEN [res |-> Err("InvalidRequest"), connections |-> conns, dns |-> queries]
    ELSE IF ~made.ok
    THEN [res |-> Err("IO"), connections |-> conns, dns |-> queries]
    ELSE LET id == made.val
             key == CHOOSE k \in Ids : k # id
             port == IF url.port.some THEN url.port.val ELSE DEFAULT_PORT
             sock == [id |-> id, peer |-> None]
             trk == Record(req.id, InstantNow,
                           TrackerStateNew(sock, http_req(req, url), port),
                           Seen(stopping(req), 0, FALSE, 0))
         IN  [res |-> Ok(id),
              connections |-> [i \in DOMAIN conns \cup {key} |->
                                  IF i = key THEN trk ELSE conns[i]],
              dns |-> [queries EXCEPT ![id] = @ + 1]]

\* Handler::new_announce.  `made` is what TSocket::new_v4 returns: Err, or
\* Ok of the new socket's id.  `queries` are the resolver's pending
\* queries, by id (dns.new_query adds one).
new_announce(conns, queries, req, url, made) ==
    IF ~url.host.some
    THEN [res |-> Err("InvalidRequest"), connections |-> conns, dns |-> queries]
    ELSE IF ~made.ok
    THEN [res |-> Err("IO"), connections |-> conns, dns |-> queries]
    ELSE LET id == made.val
             port == IF url.port.some THEN url.port.val ELSE DEFAULT_PORT
             sock == [id |-> id, peer |-> None]
             trk == Record(req.id, InstantNow,
                           TrackerStateNew(sock, http_req(req, url), port),
                           Seen(stopping(req), 0, FALSE, 0))
         IN  [res |-> Ok(id),
              connections |-> [i \in DOMAIN conns \cup {id} |->
                                  IF i = id THEN trk ELSE conns[i]],
              dns |-> [queries EXCEPT ![id] = @ + 1]]

\* ------------------------------------------------------------------------
\* The dispatcher's state (src/tracker/mod.rs, struct Tracker)
\* ------------------------------------------------------------------------

VARIABLES
    run,        \* "running" inside Tracker::run's loop, "shutdown" after it
                \* returned, "panicked" after the thread unwound
    queue,      \* Tracker.queue: the requests sent and not yet received
    dns_res,    \* Tracker.dns_res: the resolver's answers not yet received
    dns,        \* Tracker.dns: per id, the queries the resolver still owes
    http,       \* Tracker.http.connections
    reg,        \* the registrar: the ids it has for the sockets it registers
    timer,      \* ms until Tracker.timer's next notification (0: it is due)
    trk_tx,     \* what the last step sent on CONTROL.trk_tx, in order
    calls       \* the Handler calls the last step made, in order

vars == <<run, queue, dns_res, dns, http, reg, timer, trk_tx, calls>>

\* Request::Shutdown
Shutdown == [type |-> "Shutdown"]

\* Request::Announce(Announce { id, url, event, .. })
Announce(id, url, event) ==
    [type |-> "Announce", id |-> id, url |-> url, event |-> event]

\* The announce URLs there are: one per way handle_request and
\* new_announce tell URLs apart.
Urls ==
    {"http://tr.example/announce", "http:/announce", "udp://tr.example:6969",
     "wss://tr.example/announce", "not a url"}

\* dns::QueryResponse { id, res }
QueryResponse(id, res) == [id |-> id, res |-> res]

DnsResults == {Ok("10.0.0.1"), Err("DNS")}

\* The socket outcomes one Handler call may meet: e.w for the write, e.r
\* for the read, e.body for the payload held at end of stream.  Outcomes
\* the call does not come to are fixed, so that each behaviour is
\* enumerated once.
Idle == [w |-> Accepts(0), r |-> "more", body |-> GarbageReply]

ReadEnvs ==
    {[Idle EXCEPT !.r = r] : r \in ReadOutcomes \ {"eof"}}
        \cup {[Idle EXCEPT !.r = "eof", !.body = b] : b \in Replies}

WriteEnvs(writer) ==
    {[Idle EXCEPT !.w = w] : w \in WriteOutcomes(writer) \ {Accepts(writer.left)}}
        \cup {[e EXCEPT !.w = Accepts(writer.left)] : e \in ReadEnvs}

Envs(s, event) ==
    IF s.tag = "ResolvingDNS" /\ event.kind = "DNSResolved"
    THEN IF event.r.res.ok THEN WriteEnvs(WriterNew(s.req)) ELSE {Idle}
    ELSE IF s.tag = "Writing" /\ event.kind = "Writable"
    THEN WriteEnvs(s.writer)
    ELSE IF s.tag = "Reading" /\ event.kind = "Readable"
    THEN ReadEnvs
    ELSE {Idle}

\* What the properties keep of one Handler call: the record before it and
\* after it, what the state machine returned, what the call returned, the
\* socket calls it made and what they met.
Call(op, id, event, e, r) ==
    [op |-> op, id |-> id, event |-> event, met |-> e, pre |-> r.pre,
     post |-> IF id \in DOMAIN r.connections THEN Some(r.connections[id]) ELSE None,
     sm |-> r.sm, ret |-> r.ret, io |-> r.io]

NoQueries == [id \in Ids |-> 0]

\* The state after Tracker::new, with a registrar that has the ids `pool`.
Start(pool) ==
    /\ run = "running"
    /\ queue = <<>>
    /\ dns_res = <<>>
    /\ dns = NoQueries
    /\ http = <<>>
    /\ reg = pool
    /\ timer = TICK_MS
    /\ trk_tx = <<>>
    /\ calls = <<>>

\* ------------------------------------------------------------------------
\* The client, the resolver and the clock
\* ------------------------------------------------------------------------

\* The client sends a request (Handle::get().send(..)).
Submit(req) ==
    /\ run = "running"
    /\ Len(queue) < MaxQueue
    /\ queue' = Append(queue, req)
    /\ trk_tx' = <<>>
    /\ calls' = <<>>
    /\ UNCHANGED <<run, dns_res, dns, http, reg, timer>>

\* The resolver answers one of the queries it owes (dns::Resolver sends a
\* QueryResponse on the channel given to Resolver::new).
DnsAnswer(id, res) ==
    /\ run = "running"
    /\ dns[id] > 0
    /\ dns' = [dns EXCEPT ![id] = @ - 1]
    /\ dns_res' = Append(dns_res, QueryResponse(id, res))
    /\ trk_tx' = <<>>
    /\ calls' = <<>>
    /\ UNCHANGED <<run, queue, http, reg, timer>>

\* The steps the clock may take: to the timer's next firing, or from a
\* firing to Phase ms after it.
Steps == {timer} \cup (IF timer = TICK_MS THEN {Phase} ELSE {})

\* d ms pass.  A notification is handled as it is raised (the poller wakes
\* the loop): time passes neither a due timer nor a channel that holds a
\* message.
Advance(d) ==
    /\ run = "running"
    /\ queue = <<>>
    /\ dns_res = <<>>
    /\ 0 < d
    /\ d <= timer
    /\ \A id \in DOMAIN http : http[id].last_updated + d <= MaxElapsed
    /\ timer' = timer - d
    /\ http' = [id \in DOMAIN http |->
                   [http[id] EXCEPT !.last_updated = @ + d,
                                    !.seen.quiet = @ + d]]
    /\ trk_tx' = <<>>
    /\ calls' = <<>>
    /\ UNCHANGED <<run, queue, dns_res, dns, reg>>

\* ------------------------------------------------------------------------
\* Tracker (src/tracker/mod.rs)
\* ------------------------------------------------------------------------

\* What one iteration of handle_request's loop may meet: what
\* TSocket::new_v4 returns, and what udp::Handler::new_announce returns.
NoReqEnv == [made |-> Err("io"), udp |-> Ok("udp")]

ReqEnvs ==
    {NoReqEnv, [NoReqEnv EXCEPT !.udp = Err("IO")]}
        \cup {[NoReqEnv EXCEPT !.made = Ok(id)] : id \in Ids}

\* The outcomes an iteration on request r comes to, given the map: a new
\* socket gets an id of the registrar that no record of the map has.
ReqEnvsOf(conns, pool, r) ==
    IF r.type = "Shutdown" \/ ~url_parse(r.url).ok THEN {NoReqEnv}
    ELSE LET url == url_parse(r.url).val IN
         IF url.scheme = "http" /\ url.host.some
         THEN {c \in ReqEnvs :
                 c.udp.ok /\ (c.made.ok => c.made.val \in pool \ DOMAIN conns)}
         ELSE IF url.scheme = "udp"
         THEN {c \in ReqEnvs : ~c.made.ok}
         ELSE {NoReqEnv}

\* The dispatcher's state while one of its handlers runs: `out` is what it
\* has sent, `valid` whether the outcomes chosen for it are ones it came to.
Running ==
    [run |-> run, http |-> http, dns |-> dns,
     out |-> <<>>, calls |-> <<>>, valid |-> TRUE]

\* What the properties keep of one iteration of handle_request's loop:
\* the request taken, the map before and after it, and what it sent.
Taken(r, before, after, sent) ==
    [op |-> "request", req |-> r, before |-> before, after |-> after,
     sent |-> sent]

\* One iteration of handle_request's loop (lines 75-99) on request r.
Receive(st, r, c) ==
    IF r.type = "Shutdown"
    THEN [st EXCEPT !.run = "shutdown",
                    !.calls = Append(@, Taken(r, st.http, st.http, <<>>))]
    ELSE
    LET id == r.id
        parsed == url_parse(r.url)
        viaHttp == parsed.ok /\ parsed.val.scheme = "http"
        na == new_announce(st.http, st.dns, r, parsed.val, c.made)
        response ==
            IF parsed.ok
            THEN IF parsed.val.scheme = "http" THEN na.res
                 ELSE IF parsed.val.scheme = "udp" THEN c.udp
                 ELSE Err("InvalidRequest")
            ELSE Err("InvalidRequest")
        out == IF ~stopping(r) /\ ~response.ok
               THEN <<[torrent |-> id, res |-> Err(response.err),
                       of |-> Seen(stopping(r), 0, FALSE, 0)]>>
               ELSE <<>>
    IN  [st EXCEPT
            !.http = IF viaHttp THEN na.connections ELSE @,
            !.dns = IF viaHttp THEN na.dns ELSE @,
            !.out = @ \o out,
            !.calls = IF viaHttp
                      THEN @ \o <<[op |-> "new_announce", req |-> r,
                                   url |-> parsed.val, made |-> c.made,
                                   res |-> na.res,
                                   before |-> [connections |-> st.http, dns |-> st.dns],
                                   after |-> [connections |-> na.connections, dns |-> na.dns]],
                                  Taken(r, st.http, na.connections, out)>>
                      ELSE Append(@, Taken(r, st.http, st.http, out))]

\* The loop without its return on Shutdown: it goes on to the queue's end.
RECURSIVE DrainOn(_, _, _)
DrainOn(st, q, cs) ==
    IF q = <<>>
    THEN [st |-> st, rest |-> q]
    ELSE DrainOn([Receive(st, Head(q), Head(cs)) EXCEPT
                      !.valid = @ /\ Head(cs) \in ReqEnvsOf(st.http, reg, Head(q))],
                 Tail(q), Tail(cs))

\* handle_request's loop over queue q: it ends when the queue is empty and
\* returns at once on Shutdown, leaving the later requests in the queue.
RECURSIVE Drain(_, _, _)
Drain(st, q, cs) ==
    IF q = <<>> \/ st.run # "running"
    THEN [st |-> [st EXCEPT !.valid = @ /\ \A i \in DOMAIN cs : cs[i] = NoReqEnv],
          rest |-> q]
    ELSE Drain([Receive(st, Head(q), Head(cs)) EXCEPT
                    !.valid = @ /\ Head(cs) \in ReqEnvsOf(st.http, reg, Head(q))],
               Tail(q), Tail(cs))

\* The dispatcher's state as a handler leaves it.  When Tracker::run has
\* returned or the thread has unwound, the Tracker is dropped (start(),
\* lines 299-304), and with it the map, the resolver and the channels'
\* receivers.
Leave(st) ==
    /\ st.valid
    /\ \A id \in Ids : st.dns[id] <= MaxQueries
    /\ run' = st.run
    /\ http' = IF st.run = "running" THEN st.http ELSE <<>>
    /\ dns' = IF st.run = "running" THEN st.dns ELSE NoQueries
    /\ trk_tx' = st.out
    /\ calls' = st.calls

\* Tracker::handle_request, on the queue's notification.
handle_request ==
    /\ run = "running"
    /\ queue # <<>>
    /\ \E cs \in [1..Len(queue) -> ReqEnvs] :
          \E d \in {Drain(Running, queue, cs)} :
              /\ Leave(d.st)
              /\ queue' = d.rest
              /\ dns_res' = IF d.st.run = "running" THEN dns_res ELSE <<>>
    /\ UNCHANGED <<reg, timer>>

\* What a Handler call's return value makes the dispatcher do: send the
\* response if there is one (`if let Some(r) = resp { .. send(r) }`); a
\* panic inside the call ends the thread before anything is sent.
After(st, op, id, event, e, r) ==
    [st EXCEPT
        !.run = IF r.panic THEN "panicked" ELSE @,
        !.http = r.connections,
        !.out = IF r.ret.some /\ ~r.panic THEN Append(@, r.ret.val) ELSE @,
        !.calls = Append(@, Call(op, id, event, e, r))]

\* One iteration of handle_dns_res's loop (lines 106-115) on answer r.
Resolved(st, r, e) ==
    IF contains(st.http, r.id)
    THEN After(st, "dns_resolved", r.id, DNSResolved(r), e,
               dns_resolved(st.http, r, e))
    ELSE [st EXCEPT !.calls = Append(@, [op |-> "discarded", r |-> r])]

\* The socket outcomes an iteration on answer r comes to.
DnsEnvsOf(conns, r) ==
    IF contains(conns, r.id)
    THEN Envs(conns[r.id].state, DNSResolved(r))
    ELSE {Idle}

DnsEnvs == WriteEnvs(WriterNew(ReqLen)) \cup {Idle}

\* handle_dns_res's loop over the answers q.
RECURSIVE DrainDns(_, _, _)
DrainDns(st, q, es) ==
    IF q = <<>> \/ st.run # "running"
    THEN [st |-> [st EXCEPT !.valid = @ /\ \A i \in DOMAIN es : es[i] = Idle],
          rest |-> q]
    ELSE DrainDns([Resolved(st, Head(q), Head(es)) EXCEPT
                      !.valid = @ /\ Head(es) \in DnsEnvsOf(st.http, Head(q))],
                  Tail(q), Tail(es))

\* Tracker::handle_dns_res, on the resolver channel's notification.
handle_dns_res ==
    /\ run = "running"
    /\ dns_res # <<>>
    /\ \E es \in [1..Len(dns_res) -> DnsEnvs] :
          \E d \in {DrainDns(Running, dns_res, es)} :
              /\ Leave(d.st)
              /\ dns_res' = IF d.st.run = "running" THEN d.rest ELSE <<>>
    /\ UNCHANGED <<queue, reg, timer>>

\* The orders in which HashMap::retain may visit the records.
Orders(conns) ==
    {o \in [1..Cardinality(DOMAIN conns) -> DOMAIN conns] :
        \A i, j \in DOMAIN o : i # j => o[i] # o[j]}

\* Tracker::handle_timer, on the timer's notification.  udp.tick() and
\* dns.tick() act on the UDP handler and on the resolver's own queries.
handle_timer ==
    /\ run = "running"
    /\ timer = 0
    /\ \E order \in Orders(http) :
          \E t \in {tick(http, order)} :
              /\ http' = t.connections
              /\ trk_tx' = t.resps
              /\ calls' = <<[op |-> "tick", before |-> http, resps |-> t.resps]>>
    /\ timer' = TICK_MS
    /\ UNCHANGED <<run, queue, dns_res, dns, reg>>

\* The record holds a socket: every state but Error does.  The state that
\* handle replaces is dropped, and its socket with it.
HasSocket(trk) == trk.state.tag # "Error"

\* Tracker::handle_socket, on a notification for socket id, readable or
\* not.  Only the sockets of the HTTP handler are part of the model, and a
\* socket is notified of as long as it exists.
handle_socket(id, is_readable) ==
    /\ run = "running"
    /\ contains(http, id)
    /\ HasSocket(http[id])
    /\ \E e \in Envs(http[id].state, IF is_readable THEN Readable ELSE Writable) :
          \E r \in {IF is_readable THEN readable(http, id, e)
                    ELSE writable(http, id, e)} :
              /\ Leave(After(Running,
                             IF is_readable THEN "readable" ELSE "writable", id,
                             IF is_readable THEN Readable ELSE Writable, e, r))
              /\ dns_res' = IF r.panic THEN <<>> ELSE dns_res
    /\ UNCHANGED <<queue, reg, timer>>

\* ------------------------------------------------------------------------
\* The subsystem with one connection id: the client announces one torrent
\* to an HTTP tracker, and may shut the subsystem down.
\* ------------------------------------------------------------------------

ClientRequests ==
    {Announce(7, "http://tr.example/announce", event) : event \in AnnounceEvents}
        \cup {Shutdown}

Init == Start({1})

Next ==
    \/ \E req \in ClientRequests : Submit(req)
    \/ \E id \in Ids, res \in DnsResults : DnsAnswer(id, res)
    \/ \E d \in Steps : Advance(d)
    \/ handle_request
    \/ handle_dns_res
    \/ handle_timer
    \/ \E id \in Ids, is_readable \in BOOLEAN : handle_socket(id, is_readable)

Spec == Init /\ [][Next]_vars

\* ------------------------------------------------------------------------
\* The dispatcher with two connection ids, one step at a time: it starts
\* with any map of records, the timer due, and at most one request or one
\* resolver's answer waiting.
\* ------------------------------------------------------------------------

Sock(id, peer) == [id |-> id, peer |-> peer]

Peer == Some([ip |-> "10.0.0.1", port |-> DEFAULT_PORT])

\* The states the record under connection id `id` may be in.
StatesOf(id) ==
    {ResolvingDNS(Sock(id, None), ReqLen, DEFAULT_PORT), ErrorState}
        \cup {Writing(Sock(id, Peer), [left |-> l]) : l \in 1..ReqLen}
        \cup {Reading(Sock(id, Peer), [got |-> g]) : g \in 0..ReadCap}

\* The ages a record's last_updated may have when the timer is due: the
\* oldest that tick keeps and the youngest that it removes.
Ages == {TIMEOUT_MS, TIMEOUT_MS + Phase}

\* The histories a record in state s may have: a state other than Error
\* has returned nothing; Error has returned an error, or has had its
\* success dropped.
HistoriesOf(s, age) ==
    IF s.tag = "Error"
    THEN {Seen(stop, sent, dns_err, age) :
            stop \in BOOLEAN, sent \in {0, 1}, dns_err \in BOOLEAN}
            \ {Seen(stop, 0, TRUE, age) : stop \in BOOLEAN}
    ELSE {Seen(stop, 0, FALSE, age) : stop \in BOOLEAN}

\* The record of torrent 6 + id under connection id `id`: any record under
\* the first id, and under another id a record that the calls on the
\* first must leave alone, waiting for its answer or failed.
RecordsOf(id) ==
    IF id = 1
    THEN UNION {{Record(6 + id, age, s, h) : h \in HistoriesOf(s, age)} :
                   s \in StatesOf(id), age \in Ages}
    ELSE {Record(6 + id, age, ResolvingDNS(Sock(id, None), ReqLen, DEFAULT_PORT),
                 Seen(FALSE, 0, FALSE, age)) : age \in Ages}
            \cup {Record(6 + id, age, ErrorState, Seen(FALSE, 1, FALSE, age)) :
                     age \in Ages}

Maps(pool) ==
    UNION {{f \in [D -> UNION {RecordsOf(id) : id \in D}] :
               \A id \in D : f[id] \in RecordsOf(id)} :
              D \in SUBSET pool}

\* What waits for the dispatcher: nothing, one request, one answer, or a
\* Shutdown with an announce queued before it or after it.
Waiting(q, a) == [queue |-> q, dns_res |-> a]

Pendings ==
    {Waiting(<<>>, <<>>), Waiting(<<Shutdown>>, <<>>)}
        \cup {Waiting(<<Announce(7, url, event)>>, <<>>) :
                 url \in Urls, event \in AnnounceEvents}
        \cup {Waiting(<<>>, <<QueryResponse(id, res)>>) :
                 id \in Ids, res \in DnsResults}
        \cup {Waiting(<<Shutdown, Announce(7, url, "Started")>>, <<>>) :
                 url \in Urls}
        \cup {Waiting(<<Announce(7, url, "Started"), Shutdown>>, <<>>) :
                 url \in Urls}

\* The resolver owes an answer to each record in ResolvingDNS whose answer
\* is not waiting already.
Owed(conns, answers) ==
    [id \in Ids |->
        IF /\ id \in DOMAIN conns
           /\ conns[id].state.tag = "ResolvingDNS"
           /\ \A i \in DOMAIN answers : answers[i].id # id
        THEN 1 ELSE 0]

HandlerInit ==
    /\ run = "running"
    /\ reg = Ids
    /\ timer = 0
    /\ trk_tx = <<>>
    /\ calls = <<>>
    /\ http \in Maps(Ids)
    /\ \E p \in Pendings :
          /\ queue = p.queue
          /\ dns_res = p.dns_res
    /\ dns = Owed(http, dns_res)

HandlerNext ==
    \/ handle_request
    \/ handle_dns_res
    \/ handle_timer
    \/ \E id \in Ids, is_readable \in BOOLEAN : handle_socket(id, is_readable)

HandlerSpec == HandlerInit /\ [][HandlerNext]_vars

\* ------------------------------------------------------------------------
\* The Handler's methods called with any id, owned or not, next to the
\* dispatcher's handle_dns_res
\* ------------------------------------------------------------------------

\* Any map, with nothing or one answer of the resolver waiting.
MethodInit == HandlerInit /\ queue = <<>>

\* One call of Handler::readable, writable or dns_resolved (op) with id
\* and event, whether the map has a record under id or not, on the map
\* as it is at first.
MethodCall(op, id, event) ==
    /\ run = "running"
    /\ calls = <<>>
    /\ \E e \in (IF contains(http, id) THEN Envs(http[id].state, event)
                 ELSE {Idle}) :
          \E r \in {CASE op = "readable" -> readable(http, id, e)
                      [] op = "writable" -> writable(http, id, e)
                      [] OTHER -> dns_resolved(http, event.r, e)} :
              /\ Leave(After(Running, op, id, event, e, r))
              /\ dns_res' = IF r.panic THEN <<>> ELSE dns_res
    /\ UNCHANGED <<queue, reg, timer>>

MethodNext ==
    \/ handle_dns_res
    \/ \E id \in Ids : MethodCall("readable", id, Readable)
    \/ \E id \in Ids : MethodCall("writable", id, Writable)
    \/ \E id \in Ids, res \in DnsResults :
          MethodCall("dns_resolved", id, DNSResolved(QueryResponse(id, res)))

MethodSpec == MethodInit /\ [][MethodNext]_vars

\* ------------------------------------------------------------------------
\* The reply parser on its own: from_bencode applied to a decoded reply,
\* and the parsed peers serialised again with addr_to_bytes
\* ------------------------------------------------------------------------

\* Compact peers, six bytes each.
PeerChunks ==
    {<<10, 0, 0, 2, 26, 225>>, <<192, 168, 1, 255, 0, 80>>, <<0, 0, 0, 0, 1, 0>>}

\* What may follow the last whole peer: nothing, or one to five bytes.
PeerTails == {SubSeq(c, 1, n) : c \in PeerChunks, n \in 0..5}

RECURSIVE Concat(_)
Concat(ss) == IF ss = <<>> THEN <<>> ELSE Head(ss) \o Concat(Tail(ss))

\* The peers strings a reply may carry: up to MaxPeers whole peers and a
\* tail.
PeerStrings ==
    {Concat(ps) \o tail :
        ps \in UNION {[1..n -> PeerChunks] : n \in 0..MaxPeers},
        tail \in PeerTails}

\* A reply dictionary with the given entries, each one present or not.
ReplyDict(peers, interval, leechers, seeders) ==
    LET e == [k \in {"peers", "interval", "leechers", "seeders"} |->
                 CASE k = "peers" -> peers
                   [] k = "interval" -> interval
                   [] k = "leechers" -> leechers
                   [] OTHER -> seeders]
    IN  BDict([k \in {k \in DOMAIN e : e[k].some} |-> e[k].val])

\* The decoded replies from_bencode is applied to.
DecodedReplies ==
    {ReplyDict(peers, interval, leechers, seeders) :
        peers \in {None} \cup {Some(BStr(b)) : b \in PeerStrings},
        interval \in {None, Some(BInt(1800))},
        leechers \in {None, Some(BInt(0)), Some(BInt(3))},
        seeders \in {None, Some(BInt(0)), Some(BInt(5))}}
        \cup {FailureReply.val, BInt(0),
              BDict([k \in {"failure reason"} |-> BStr(<<255>>)])}

ParseInit ==
    /\ run = "running"
    /\ queue = <<>>
    /\ dns_res = <<>>
    /\ dns = NoQueries
    /\ http = <<>>
    /\ reg = Ids
    /\ timer = TICK_MS
    /\ trk_tx = <<>>
    /\ \E data \in DecodedReplies : calls = <<[op |-> "decoded", data |-> data]>>

\* TrackerResponse::from_bencode(data); a panic unwinds the thread.
Parse ==
    /\ run = "running"
    /\ Len(calls) = 1
    /\ calls[1].op = "decoded"
    /\ calls' = <<[op |-> "from_bencode", data |-> calls[1].data,
                   res |-> from_bencode(calls[1].data)]>>
    /\ run' = IF calls'[1].res.panic THEN "panicked" ELSE run
    /\ UNCHANGED <<queue, dns_res, dns, http, reg, timer, trk_tx>>

\* addr_to_bytes on each parsed peer, the results put one after another,
\* and bytes_to_addr on each result.
Serialise ==
    /\ run = "running"
    /\ Len(calls) = 1
    /\ calls[1].op = "from_bencode"
    /\ calls[1].res.ok
    /\ LET peers == calls[1].res.val.peers
           bytes == [i \in DOMAIN peers |-> addr_to_bytes(peers[i])]
       IN  calls' = <<[op |-> "addr_to_bytes", data |-> calls[1].data,
                      res |-> calls[1].res, bytes |-> Concat(bytes),
                      back |-> [i \in DOMAIN bytes |-> bytes_to_addr(bytes[i])]]>>
    /\ UNCHANGED <<run, queue, dns_res, dns, http, reg, timer, trk_tx>>

ParseNext == Parse \/ Serialise

ParseSpec == ParseInit /\ [][ParseNext]_vars

\* ------------------------------------------------------------------------
\* Properties
\* ------------------------------------------------------------------------

\* The Handler methods that deliver an event to a record.
Deliveries == {"readable", "writable", "dns_resolved"}

\* The calls of the last step that delivered an event to a record.
Delivering == {i \in DOMAIN calls : calls[i].op \in Deliveries /\ calls[i].pre.some}

\* The calls of the last step that were Handler::tick.
Ticking == {i \in DOMAIN calls : calls[i].op = "tick"}

\* The calls of the last step that were Handler::new_announce.
Announcing == {i \in DOMAIN calls : calls[i].op = "new_announce"}

\* C1: for every announce accepted by new_announce, the dispatcher sends at
\* most one response on the outbound channel: no response sent is the
\* second or a later one for its announce.
C1_AtMostOneResponse == \A i \in DOMAIN trk_tx : trk_tx[i].of.sent = 0

\* C2: a record in the connections map has its state machine in
\* ResolvingDNS, Writing or Reading, and a record for which readable,
\* writable or dns_resolved returns a response has left the map when the
\* call returns.
C2_MapHoldsLiveRecords ==
    /\ \A id \in DOMAIN http :
          http[id].state.tag \in {"ResolvingDNS", "Writing", "Reading"}
    /\ \A i \in Delivering : calls[i].ret.some => ~calls[i].post.some

\* C3: no error response is sent for a stopping announce, wherever the
\* error arises, and every error of an announce that is not stopping is
\* sent: the error new_announce fails with, and the error response a
\* Handler method returns.
C3_StoppingErrorsSuppressed ==
    /\ \A i \in DOMAIN trk_tx : trk_tx[i].of.stopping => trk_tx[i].res.ok
    /\ \A i \in Announcing :
          ~calls[i].res.ok /\ ~stopping(calls[i].req) =>
              \E j \in DOMAIN trk_tx :
                  /\ trk_tx[j].torrent = calls[i].req.id
                  /\ trk_tx[j].res = Err(calls[i].res.err)
    /\ \A i \in Delivering :
          /\ run = "running"
          /\ calls[i].ret.some
          /\ ~calls[i].ret.val.res.ok
          /\ ~calls[i].pre.val.seen.stopping
          => \E j \in DOMAIN trk_tx : trk_tx[j] = calls[i].ret.val

\* C4: whenever the state machine reaches Complete while it handles an
\* event, the method that delivered the event (dns_resolved, writable or
\* readable) returns the record's torrent id with Ok of the response.
C4_SuccessReturned ==
    \A i \in Delivering :
        calls[i].sm.ok /\ calls[i].sm.val.some =>
            /\ calls[i].ret.some
            /\ calls[i].ret.val.torrent = calls[i].pre.val.torrent
            /\ calls[i].ret.val.res = Ok(calls[i].sm.val.val)

\* C5: an accepted announce that is not stopping gets exactly one response
\* with its torrent id: when tick removes its record, after which nothing
\* is sent for it, the responses returned for it before and the ones tick
\* returns for it now are one in all.
C5_ExactlyOneResponse ==
    \A i \in Ticking :
        \A id \in DOMAIN calls[i].before \ DOMAIN http :
            ~calls[i].before[id].seen.stopping =>
                calls[i].before[id].seen.sent
                    + Cardinality({j \in DOMAIN calls[i].resps :
                                     calls[i].resps[j].torrent
                                        = calls[i].before[id].torrent})
                    = 1

\* C6: tick removes exactly the records whose last_updated is more than
\* TIMEOUT_MS ago, returns one Timeout response with the torrent id for
\* each record removed and no other response, and leaves every other
\* record as it was.
C6_TickRemovesTimedOut ==
    \A i \in Ticking :
        LET before == calls[i].before
            resps == calls[i].resps
            removed == {id \in DOMAIN before :
                          before[id].last_updated - InstantNow > TIMEOUT_MS}
        IN  /\ DOMAIN http = DOMAIN before \ removed
            /\ \A id \in DOMAIN http : http[id] = before[id]
            /\ Len(resps) = Cardinality(removed)
            /\ \A id \in removed :
                  \E j \in DOMAIN resps :
                      /\ resps[j].torrent = before[id].torrent
                      /\ resps[j].res = Err("Timeout")

\* A tick met two records, one exactly TIMEOUT_MS old, which it kept, and
\* an older one, which it removed.
C6_Witness ==
    \E i \in Ticking :
        \E a, b \in DOMAIN calls[i].before :
            /\ calls[i].before[a].last_updated = TIMEOUT_MS
            /\ a \in DOMAIN http
            /\ calls[i].before[b].last_updated > TIMEOUT_MS
            /\ b \notin DOMAIN http

\* C7: every DNSResolved, Readable or Writable event delivered to a
\* record, also one the state machine ignores, sets last_updated to the
\* current time; so last_updated is the time of the last event delivered
\* (or of creation), and tick removes no record that had an event
\* delivered within the last TIMEOUT_MS.
C7_InactivityTimeout ==
    /\ \A i \in Delivering :
          /\ calls[i].post.some
          /\ calls[i].post.val.last_updated = InstantNow
    /\ \A id \in DOMAIN http : http[id].last_updated = http[id].seen.quiet
    /\ \A i \in Ticking :
          \A id \in DOMAIN calls[i].before \ DOMAIN http :
              calls[i].before[id].seen.quiet > TIMEOUT_MS

\* A record in Reading whose last event is TIMEOUT_MS or more ago is
\* delivered Writable, which its state machine ignores; it stays in the
\* map, as it was but for last_updated, which is now.
C7_Witness ==
    \E i \in Delivering :
        /\ calls[i].op = "writable"
        /\ calls[i].pre.val.state.tag = "Reading"
        /\ calls[i].pre.val.last_updated >= TIMEOUT_MS
        /\ calls[i].id \in DOMAIN http
        /\ http[calls[i].id].state = calls[i].pre.val.state
        /\ http[calls[i].id].last_updated = InstantNow

\* C8: no record is in the connections map longer than TIMEOUT_MS plus
\* one timer interval after the last event delivered to it, whatever the
\* state of its state machine.
C8_RemovedWithinOneTick ==
    \A id \in DOMAIN http : http[id].seen.quiet <= TIMEOUT_MS + TICK_MS

\* A record whose state machine has failed or completed is in the map
\* TIMEOUT_MS plus one timer interval after its last event.
C8_Witness ==
    \E id \in DOMAIN http :
        /\ http[id].state.tag = "Error"
        /\ http[id].seen.quiet = TIMEOUT_MS + TICK_MS

\* C9: when the resolver's result for a record in ResolvingDNS is an
\* error, dns_resolved returns Err(DNS) with the record's torrent id and
\* makes no call on the socket, and no response is sent later for an
\* announce whose resolution has failed.
C9_DnsFailureAnswersOnce ==
    /\ \A i \in Delivering :
          /\ calls[i].op = "dns_resolved"
          /\ calls[i].pre.val.state.tag = "ResolvingDNS"
          /\ ~calls[i].event.r.res.ok
          => /\ calls[i].ret.some
             /\ calls[i].ret.val.torrent = calls[i].pre.val.torrent
             /\ calls[i].ret.val.res = Err("DNS")
             /\ calls[i].io = <<>>
    /\ \A i \in DOMAIN trk_tx : ~trk_tx[i].of.dns_err

\* C10: new_announce fails with InvalidRequest on a URL without host and
\* with IO when no socket can be made; when it fails the map and the
\* resolver's queries are as before; when it succeeds the map has one
\* record more, in ResolvingDNS and with the request's id as torrent, and
\* the records it had are as before.
C10_NewAnnounce ==
    \A i \in Announcing :
        LET c == calls[i] IN
        /\ ~c.url.host.some => c.res = Err("InvalidRequest")
        /\ c.url.host.some /\ ~c.made.ok => c.res = Err("IO")
        /\ ~c.res.ok => c.after = c.before
        /\ c.res.ok =>
              \E id \in DOMAIN c.after.connections \ DOMAIN c.before.connections :
                  /\ DOMAIN c.after.connections
                        = DOMAIN c.before.connections \cup {id}
                  /\ \A o \in DOMAIN c.before.connections :
                        c.after.connections[o] = c.before.connections[o]
                  /\ c.after.connections[id].state.tag = "ResolvingDNS"
                  /\ c.after.connections[id].torrent = c.req.id

\* new_announce has failed with InvalidRequest on a URL without host,
\* with a record in the map.
C10_Witness ==
    \E i \in Announcing :
        /\ ~calls[i].url.host.some
        /\ calls[i].res = Err("InvalidRequest")
        /\ calls[i].before.connections # <<>>
        /\ http = calls[i].before.connections

\* The iterations of handle_request's loop in the last step.
Taking == {i \in DOMAIN calls : calls[i].op = "request"}

\* C11: for an announce whose URL cannot be parsed or whose scheme is
\* neither http nor udp, the dispatcher creates no record and sends one
\* Err(InvalidRequest) with the request's torrent id, and nothing when the
\* request is stopping.
C11_InvalidRequest ==
    \A i \in Taking :
        LET c == calls[i]
            parsed == url_parse(c.req.url)
        IN  /\ c.req.type = "Announce"
            /\ ~parsed.ok \/ parsed.val.scheme \notin {"http", "udp"}
            => /\ c.after = c.before
               /\ Len(c.sent) = IF c.req.event = "Stopped" THEN 0 ELSE 1
               /\ \A j \in DOMAIN c.sent :
                     /\ c.sent[j].torrent = c.req.id
                     /\ c.sent[j].res = Err("InvalidRequest")
               /\ run = "running" => http = c.before /\ trk_tx = c.sent

\* A request whose URL does not parse, not stopping, has been answered
\* with Err(InvalidRequest) while the map holds a record.
C11_Witness ==
    \E i \in Taking :
        /\ calls[i].req.type = "Announce"
        /\ ~url_parse(calls[i].req.url).ok
        /\ calls[i].req.event # "Stopped"
        /\ Len(calls[i].sent) = 1
        /\ trk_tx = calls[i].sent
        /\ http # <<>>

\* C12: once Shutdown is taken from the queue the loop ends: the step that
\* took it takes no later request and has sent only what the requests
\* before it made it send, and from then on nothing is handled and
\* nothing is sent, whatever is queued, due or in flight.
C12_ShutdownEndsLoop ==
    /\ [](\A i \in Taking :
             calls[i].req.type = "Shutdown" =>
                 /\ i = Len(calls)
                 /\ run = "shutdown"
                 /\ \A j \in DOMAIN trk_tx :
                       \E k \in Taking :
                           /\ k < i
                           /\ \E l \in DOMAIN calls[k].sent :
                                 calls[k].sent[l] = trk_tx[j])
    /\ [][run # "running" => UNCHANGED vars]_vars

\* Shutdown has been taken with a record in flight, a request queued
\* after it and the timer due: the loop has ended and the request is still
\* in the queue.
C12_Witness ==
    \E i \in Taking :
        /\ calls[i].req.type = "Shutdown"
        /\ calls[i].before # <<>>
        /\ run = "shutdown"
        /\ queue # <<>>
        /\ timer = 0
        /\ trk_tx = <<>>

\* The calls of from_bencode on a reply with a peers string, and what
\* followed them.
Parsing ==
    {i \in DOMAIN calls :
        /\ calls[i].op \in {"from_bencode", "addr_to_bytes"}
        /\ calls[i].data.t = "dict"
        /\ HasStr(calls[i].data.d, "peers")}

\* C13: a compact peers string of 6k bytes (in a reply with an interval)
\* parses to exactly k addresses in the order of the input, each the
\* group's four octets and its big-endian 16-bit port, and addr_to_bytes
\* of the addresses, put one after another, is the string again.
C13_CompactPeersRoundTrip ==
    \A i \in Parsing :
        LET c == calls[i]
            b == c.data.d["peers"].s
        IN  Len(b) % 6 = 0 /\ HasInt(c.data.d, "interval") =>
                /\ c.res.ok
                /\ Len(c.res.val.peers) = Len(b) \div 6
                /\ \A k \in DOMAIN c.res.val.peers :
                      /\ c.res.val.peers[k].ip
                             = <<b[6 * k - 5], b[6 * k - 4], b[6 * k - 3], b[6 * k - 2]>>
                      /\ c.res.val.peers[k].port = b[6 * k - 1] * 256 + b[6 * k]
                /\ c.op = "addr_to_bytes" =>
                      /\ c.bytes = b
                      /\ \A k \in DOMAIN c.back : c.back[k] = Ok(c.res.val.peers[k])

\* Two different peers have been parsed and serialised again.
C13_Witness ==
    \E i \in Parsing :
        /\ calls[i].op = "addr_to_bytes"
        /\ Len(calls[i].res.val.peers) = 2
        /\ calls[i].res.val.peers[1] # calls[i].res.val.peers[2]
        /\ calls[i].res.val.peers[1].port = 6881
        /\ calls[i].bytes = calls[i].data.d["peers"].s

\* C14: a peers string whose length is no multiple of 6 makes from_bencode
\* return an InvalidResponse error, and the thread does not unwind.
C14_BadPeersLengthIsInvalidResponse ==
    \A i \in Parsing :
        Len(calls[i].data.d["peers"].s) % 6 # 0 =>
            /\ calls[i].res = Err("InvalidResponse")
            /\ run # "panicked"

\* C15: a successful TrackerResponse has the reply's leechers and seeders,
\* and 0 for the one that is absent.
C15_LeechersSeeders ==
    \A i \in DOMAIN calls :
        calls[i].op = "from_bencode" /\ calls[i].res.ok =>
            LET d == calls[i].data.d
            IN  /\ calls[i].res.val.leechers
                      = IF HasInt(d, "leechers") THEN d["leechers"].n ELSE 0
                /\ calls[i].res.val.seeders
                      = IF HasInt(d, "seeders") THEN d["seeders"].n ELSE 0

\* C16: a DNSResolved event delivered to a record in state Writing or
\* Reading makes the state machine fail, and the call returns an error
\* response for the announce; the state is not kept.
C16_DnsResolvedOutOfTurn ==
    \A i \in Delivering :
        /\ calls[i].event.kind = "DNSResolved"
        /\ calls[i].pre.val.state.tag \in {"Writing", "Reading"}
        => /\ ~calls[i].sm.ok
           /\ calls[i].ret.some
           /\ ~calls[i].ret.val.res.ok
           /\ calls[i].post.val.state # calls[i].pre.val.state

\* The (state, event) pairs whose event the state does not wait for.
Ignored ==
    {i \in Delivering :
        \/ /\ calls[i].pre.val.state.tag = "ResolvingDNS"
           /\ calls[i].event.kind \in {"Readable", "Writable"}
        \/ /\ calls[i].pre.val.state.tag = "Writing"
           /\ calls[i].event.kind = "Readable"
        \/ /\ calls[i].pre.val.state.tag = "Reading"
           /\ calls[i].event.kind = "Writable"}

\* C17: Readable or Writable in ResolvingDNS, Readable in Writing and
\* Writable in Reading leave the state as it was (socket, request, writer
\* or reader), make no socket call and produce no response.
C17_IgnoredEvents ==
    \A i \in Ignored :
        /\ calls[i].post = Some([calls[i].pre.val EXCEPT
                                    !.last_updated = calls[i].post.val.last_updated,
                                    !.seen = calls[i].post.val.seen])
        /\ calls[i].io = <<>>
        /\ calls[i].sm = Ok(None)
        /\ ~calls[i].ret.some
        /\ trk_tx = <<>>

\* Writable has been delivered to a record in Reading whose reader had
\* made progress, and the record is in Reading with that reader still.
C17_Witness ==
    \E i \in Ignored :
        /\ calls[i].pre.val.state.tag = "Reading"
        /\ calls[i].pre.val.state.reader.got = ReadCap
        /\ calls[i].post.val.state = calls[i].pre.val.state
        /\ calls[i].op = "writable"

\* The calls that come to a write: Writable in Writing, and DNSResolved
\* with an address in ResolvingDNS.
Connecting ==
    {i \in Delivering :
        /\ calls[i].pre.val.state.tag = "ResolvingDNS"
        /\ calls[i].event.kind = "DNSResolved"
        /\ calls[i].event.r.res.ok}

WritingOn ==
    {i \in Delivering :
        /\ calls[i].pre.val.state.tag = "Writing"
        /\ calls[i].event.kind = "Writable"}

ReadingOn ==
    {i \in Delivering :
        /\ calls[i].pre.val.state.tag = "Reading"
        /\ calls[i].event.kind = "Readable"}

\* What the writer had left to write when the call of calls[i] wrote.
LeftAt(i) ==
    IF i \in Connecting THEN calls[i].pre.val.state.req
    ELSE calls[i].pre.val.state.writer.left

\* C18: the next edge is attempted within the same call.  A call that
\* resolves the address connects and writes at once; a write that
\* exhausts the request is followed at once by a read; a write that would
\* block leaves the record in Writing and a read short of the end of the
\* stream leaves it in Reading, with no error and no response.
C18_NextEdgeInSameCall ==
    /\ \A i \in Connecting :
          /\ Len(calls[i].io) >= 2
          /\ calls[i].io[1] = "connect"
          /\ calls[i].io[2] = "write"
          /\ calls[i].post.val.state.tag # "ResolvingDNS"
    /\ \A i \in Connecting \cup WritingOn :
          LET c == calls[i]
              w == IF i \in Connecting THEN 2 ELSE 1
          IN  /\ c.io[w] = "write"
              /\ ~c.met.w.failed /\ c.met.w.n >= LeftAt(i) =>
                    /\ Len(c.io) = w + 1
                    /\ c.io[w + 1] = "read"
                    /\ c.post.val.state.tag # "Writing"
                    /\ c.met.r = "more" =>
                          /\ c.post.val.state.tag = "Reading"
                          /\ c.sm = Ok(None)
                          /\ ~c.ret.some
              /\ ~c.met.w.failed /\ c.met.w.n < LeftAt(i) =>
                    /\ Len(c.io) = w
                    /\ c.post.val.state.tag = "Writing"
                    /\ c.post.val.state.writer.left = LeftAt(i) - c.met.w.n
                    /\ c.sm = Ok(None)
                    /\ ~c.ret.some
    /\ \A i \in ReadingOn :
          LET c == calls[i]
          IN  /\ c.io = <<"read">>
              /\ c.met.r = "more" =>
                    /\ c.post.val.state.tag = "Reading"
                    /\ c.post.val.state.sock = c.pre.val.state.sock
                    /\ c.sm = Ok(None)
                    /\ ~c.ret.some

\* One call has resolved the address, connected, written the whole
\* request and read, and the record is in Reading.
C18_Witness ==
    \E i \in Connecting :
        /\ calls[i].io = <<"connect", "write", "read">>
        /\ calls[i].met.w.n = ReqLen
        /\ calls[i].met.r = "more"
        /\ calls[i].post.val.state.tag = "Reading"
        /\ http[calls[i].id].state.tag = "Reading"
        /\ trk_tx = <<>>

\* C19: a state machine that has completed or failed is met by no later
\* Handler call: no event is delivered to a record in state Error (the
\* state handle leaves behind in both cases), and tick finds no such
\* record in the map.
C19_NoRevisit ==
    /\ \A i \in Delivering :
          calls[i].pre.val.state.tag \notin {"Error", "Complete"}
    /\ \A i \in Ticking :
          \A id \in DOMAIN calls[i].before :
              calls[i].before[id].state.tag \notin {"Error", "Complete"}

Unowned == {i \in DOMAIN calls : calls[i].op \in Deliveries /\ ~calls[i].pre.some}

Discarding == {i \in DOMAIN calls : calls[i].op = "discarded"}

\* C21: events for an id the HTTP handler has no record of change nothing.
\* A step of handle_dns_res whose answers are all for such ids calls no
\* Handler method, sends nothing and leaves the map as it was; and a
\* call of readable, writable or dns_resolved with such an id returns no
\* response, makes no socket call and leaves every record as it was.
C21_UnknownIdsChangeNothing ==
    [][/\ \A i \in DOMAIN calls' :
             calls'[i].op = "discarded" =>
                 /\ calls'[i].r.id \notin DOMAIN http
                 /\ (\A j \in DOMAIN calls' : calls'[j].op = "discarded") =>
                       /\ http' = http
                       /\ trk_tx' = <<>>
                       /\ run' = run
       /\ \A i \in DOMAIN calls' :
             calls'[i].op \in Deliveries /\ ~calls'[i].pre.some =>
                 /\ calls'[i].id \notin DOMAIN http
                 /\ ~calls'[i].ret.some
                 /\ calls'[i].io = <<>>
                 /\ ~calls'[i].post.some
                 /\ http' = http
                 /\ trk_tx' = <<>>
                 /\ run' = run]_vars

\* dns_resolved has been called with an id the map has no record of,
\* while it holds a record under the other id, and nothing was sent.
C21_Witness ==
    \E i \in Unowned :
        /\ calls[i].op = "dns_resolved"
        /\ calls[i].id \notin DOMAIN http
        /\ http # <<>>
        /\ trk_tx = <<>>

====
